---- MODULE Spec2Model ----
(***************************************************************************)
(* Model of scripts/build.py: a command-line wrapper that parses flags,    *)
(* composes a configure command and a build command, and runs them one     *)
(* after the other in the project's base directory.                        *)
(*                                                                         *)
(* Strings the script builds by interpolation are sequences of fragments:  *)
(* the token -j12 is <<"-j", "1", "2">>, the token cmake is <<"cmake">>.   *)
(* A command is a sequence of tokens.  A path is the sequence of its       *)
(* components below the root.                                              *)
(***************************************************************************)
EXTENDS Integers, Sequences, FiniteSets, TLC

VARIABLES argv, script_path, caller_cwd, file,
          pc, args, base_dir, build_dir, cmake_command, build_command,
          phase, invoked, running, results, returncode, out, exit_code

vars == <<argv, script_path, caller_cwd, file,
          pc, args, base_dir, build_dir, cmake_command, build_command,
          phase, invoked, running, results, returncode, out, exit_code>>

(***************************************************************************)
(* Bounds of the model.                                                    *)
(***************************************************************************)
MaxArgs == 3

\* Exit codes a child may return, and signals that may kill it.
ExitCodes == {0, 1, 3, 255}
Signals == {9}

\* Argument strings that may follow --jobs / -j.
Lexemes == {<<"4">>, <<"0">>, <<"-", "3">>, <<"1", "2">>, <<"x">>}

\* Where the script is installed and where it is called from.
Installs == {<<"proj", "scripts", "build.py">>, <<"build.py">>}
CallerCwds == {<<>>, <<"proj", "scripts">>, <<"home">>}

(***************************************************************************)
(* Command-line tokens.  s is the option string ("" for a bare argument),  *)
(* a the characters of the argument (attached to the option for -j4).      *)
(***************************************************************************)
Flag(s) == [s |-> s, a |-> <<>>]
Bare(a) == [s |-> "", a |-> a]
Attached(s, a) == [s |-> s, a |-> a]

Tokens ==
    {Flag("--debug"), Flag("--release"), Flag("--web"), Flag("--info"),
     Flag("--help"), Flag("--bogus"), Flag("--jobs"), Flag("-j"),
     Attached("-j", <<"4">>)}
    \cup {Bare(l) : l \in Lexemes}

ArgvSet == UNION {[1..n -> Tokens] : n \in 0..MaxArgs}

(***************************************************************************)
(* int() and str() on decimal strings.                                     *)
(***************************************************************************)
Digits == <<"0", "1", "2", "3", "4", "5", "6", "7", "8", "9">>

IsDigit(c) == \E d \in 1..10 : Digits[d] = c

DigitVal(c) == (CHOOSE d \in 1..10 : Digits[d] = c) - 1

RECURSIVE DigitsVal(_)
DigitsVal(ds) ==
    IF ds = <<>> THEN 0
    ELSE 10 * DigitsVal(SubSeq(ds, 1, Len(ds) - 1)) + DigitVal(ds[Len(ds)])

Unsigned(lex) == IF lex # <<>> /\ lex[1] \in {"-", "+"} THEN Tail(lex) ELSE lex

IsInt(lex) ==
    /\ Unsigned(lex) # <<>>
    /\ \A i \in 1..Len(Unsigned(lex)) : IsDigit(Unsigned(lex)[i])

ParseInt(lex) ==
    IF lex[1] = "-" THEN 0 - DigitsVal(Unsigned(lex)) ELSE DigitsVal(Unsigned(lex))

RECURSIVE NatToDecimal(_)
NatToDecimal(n) ==
    IF n < 10 THEN <<Digits[n + 1]>>
    ELSE NatToDecimal(n \div 10) \o <<Digits[(n % 10) + 1]>>

ToDecimal(n) == IF n < 0 THEN <<"-">> \o NatToDecimal(0 - n) ELSE NatToDecimal(n)

(***************************************************************************)
(* The argument parser configured by main.                                 *)
(***************************************************************************)
DefaultJobs == 8

\* Exit status of the parsing layer on a usage error.
UsageExit == 2

Defaults ==
    [build_type |-> "Release", web |-> FALSE, jobs |-> DefaultJobs, info |-> FALSE]

MutexGroup == {"--debug", "--release"}

BuildTypeConst(opt) == IF opt = "--debug" THEN "Debug" ELSE "Release"

\* Variant: the build-type options are not mutually exclusive.
Conflicts_NotExclusive(opt, seen) == FALSE

\* An option of the mutually exclusive group is rejected once another
\* option of the group has been seen; repeating the same option is allowed.
Conflicts(opt, seen) == (seen \cap (MutexGroup \ {opt})) # {}

\* The parser walks argv from left to right.  --help prints the usage text
\* and exits at the moment it is reached; a conflict, a missing or a
\* malformed --jobs argument is an error at the moment it is reached;
\* unrecognized strings are collected and reported after the walk.
\* A bare string (negative numbers included) may serve as the argument of
\* --jobs; an option-like string may not.
RECURSIVE ParseFrom(_, _, _, _, _)
ParseFrom(av, i, ns, seen, extras) ==
    IF i > Len(av)
    THEN [status |-> IF extras THEN "error" ELSE "ok", ns |-> ns]
    ELSE LET tok == av[i] IN
         CASE tok.s = "--help" -> [status |-> "help", ns |-> ns]
           [] tok.s \in MutexGroup ->
                IF Conflicts(tok.s, seen)
                THEN [status |-> "error", ns |-> ns]
                ELSE ParseFrom(av, i + 1,
                               [ns EXCEPT !.build_type = BuildTypeConst(tok.s)],
                               seen \cup {tok.s}, extras)
           [] tok.s = "--web" ->
                ParseFrom(av, i + 1, [ns EXCEPT !.web = TRUE], seen, extras)
           [] tok.s = "--info" ->
                ParseFrom(av, i + 1, [ns EXCEPT !.info = TRUE], seen, extras)
           [] tok.s \in {"--jobs", "-j"} ->
                IF tok.a # <<>>
                THEN IF IsInt(tok.a)
                     THEN ParseFrom(av, i + 1,
                                    [ns EXCEPT !.jobs = ParseInt(tok.a)],
                                    seen, extras)
                     ELSE [status |-> "error", ns |-> ns]
                ELSE IF i + 1 <= Len(av) /\ av[i + 1].s = ""
                     THEN IF IsInt(av[i + 1].a)
                          THEN ParseFrom(av, i + 2,
                                         [ns EXCEPT !.jobs = ParseInt(av[i + 1].a)],
                                         seen, extras)
                          ELSE [status |-> "error", ns |-> ns]
                     ELSE [status |-> "error", ns |-> ns]
           [] OTHER -> ParseFrom(av, i + 1, ns, seen, TRUE)

ParseArgs(av) == ParseFrom(av, 1, Defaults, {}, FALSE)

(***************************************************************************)
(* Paths: Path(__file__).resolve().parent.parent                           *)
(***************************************************************************)
RECURSIVE Normalize(_, _)
Normalize(acc, parts) ==
    IF parts = <<>> THEN acc
    ELSE IF Head(parts) = ".."
         THEN Normalize(IF acc = <<>> THEN <<>> ELSE SubSeq(acc, 1, Len(acc) - 1),
                        Tail(parts))
         ELSE Normalize(Append(acc, Head(parts)), Tail(parts))

\* resolve(): a relative path is taken from the current directory.
Resolve(cwd, f) == Normalize(<<>>, IF f.abs THEN f.parts ELSE cwd \o f.parts)

\* parent: the parent of the root is the root.
Parent(p) == IF p = <<>> THEN <<>> ELSE SubSeq(p, 1, Len(p) - 1)

\* Variant: a single .parent, the directory of the script itself.
BaseDir_ScriptDir(cwd, f) == Parent(Resolve(cwd, f))

BaseDir(cwd, f) == Parent(Parent(Resolve(cwd, f)))

\* The relative name by which a caller in cwd reaches target.
RECURSIVE CommonLen(_, _)
CommonLen(p, q) ==
    IF p # <<>> /\ q # <<>> /\ Head(p) = Head(q)
    THEN 1 + CommonLen(Tail(p), Tail(q))
    ELSE 0

RelativeTo(cwd, target) ==
    LET k == CommonLen(cwd, target) IN
    [i \in 1..(Len(cwd) - k) |-> ".."] \o SubSeq(target, k + 1, Len(target))

FileNames(cwd, target) ==
    {[abs |-> TRUE, parts |-> target],
     [abs |-> FALSE, parts |-> RelativeTo(cwd, target)]}

(***************************************************************************)
(* Command composition.                                                    *)
(***************************************************************************)
\* Variant: the web builds share the native directories.
BuildDir_IgnoringWeb(web, build_type) ==
    IF build_type = "Debug" THEN "build-debug" ELSE "build-release"

BuildDir(web, build_type) ==
    IF web
    THEN IF build_type = "Debug" THEN "build-web-debug" ELSE "build-web-release"
    ELSE IF build_type = "Debug" THEN "build-debug" ELSE "build-release"

BuildTypeToken(build_type) == <<"-DCMAKE_BUILD_TYPE=", build_type>>

\* Variant: the default job count is forwarded whatever was given.
JobsToken_Default(jobs) == <<"-j">> \o ToDecimal(DefaultJobs)

JobsToken(jobs) == <<"-j">> \o ToDecimal(jobs)

\* Variant: the web configure command also passes -S .
CmakeCommand_WebWithSource(web, build_type, dir) ==
    IF web
    THEN <<(<<"emcmake">>), (<<"cmake">>), BuildTypeToken(build_type),
           (<<"-S">>), (<<".">>), (<<"-B">>), (<<dir>>)>>
    ELSE <<(<<"cmake">>), BuildTypeToken(build_type), (<<"-S">>), (<<".">>),
           (<<"-B">>), (<<dir>>)>>

CmakeCommand(web, build_type, dir) ==
    IF web
    THEN <<(<<"emcmake">>), (<<"cmake">>), BuildTypeToken(build_type),
           (<<"-B">>), (<<dir>>)>>
    ELSE <<(<<"cmake">>), BuildTypeToken(build_type), (<<"-S">>), (<<".">>),
           (<<"-B">>), (<<dir>>)>>

BuildCommand(dir, jobs) ==
    <<(<<"cmake">>), (<<"--build">>), (<<dir>>), JobsToken(jobs)>>

(***************************************************************************)
(* The run.                                                                *)
(***************************************************************************)
Ev(kind, cmd) == [kind |-> kind, cmd |-> cmd]

\* Variant: sys.exit(1) whatever the child returned.
ExitStatus_One(rc) == 1

\* sys.exit(n) leaves the low eight bits of n as the process's exit status.
ExitStatus(rc) == rc % 256

Init ==
    /\ argv \in ArgvSet
    /\ script_path \in Installs
    /\ caller_cwd \in CallerCwds
    /\ file \in FileNames(caller_cwd, script_path)
    /\ pc = "start"
    /\ args = Defaults
    /\ base_dir = <<>>
    /\ build_dir = ""
    /\ cmake_command = <<>>
    /\ build_command = <<>>
    /\ phase = "none"
    /\ invoked = <<>>
    /\ running = {}
    /\ results = <<>>
    /\ returncode = 0
    /\ out = <<>>
    /\ exit_code = -1

env == <<argv, script_path, caller_cwd, file>>
composed == <<base_dir, build_dir, cmake_command, build_command>>
children == <<invoked, running, results, returncode>>

\* parser.parse_args(): a usage error exits 2, --help exits 0.
ParseError ==
    /\ pc = "start"
    /\ ParseArgs(argv).status = "error"
    /\ out' = Append(out, Ev("usage_error", <<>>))
    /\ exit_code' = UsageExit
    /\ pc' = "exited"
    /\ UNCHANGED <<env, args, composed, phase, children>>

ParseHelp ==
    /\ pc = "start"
    /\ ParseArgs(argv).status = "help"
    /\ out' = Append(out, Ev("usage", <<>>))
    /\ exit_code' = 0
    /\ pc' = "exited"
    /\ UNCHANGED <<env, args, composed, phase, children>>

ParseOk ==
    /\ pc = "start"
    /\ ParseArgs(argv).status = "ok"
    /\ args' = ParseArgs(argv).ns
    /\ pc' = "parsed"
    /\ UNCHANGED <<env, composed, phase, children, out, exit_code>>

\* Variant: the return after print_argument_info() is missing and main
\* goes on to compose the commands.
PrintInfo_FallThrough ==
    /\ pc = "parsed"
    /\ args.info
    /\ base_dir' = BaseDir(caller_cwd, file)
    /\ build_dir' = BuildDir(args.web, args.build_type)
    /\ cmake_command' = CmakeCommand(args.web, args.build_type, build_dir')
    /\ build_command' = BuildCommand(build_dir', args.jobs)
    /\ out' = out \o <<Ev("info", <<>>), Ev("base_dir", <<>>), Ev("config", <<>>)>>
    /\ phase' = "configure"
    /\ pc' = "run"
    /\ UNCHANGED <<env, args, children, exit_code>>

\* if args.info: print_argument_info(); return
PrintInfo ==
    /\ pc = "parsed"
    /\ args.info
    /\ out' = Append(out, Ev("info", <<>>))
    /\ exit_code' = 0
    /\ pc' = "exited"
    /\ UNCHANGED <<env, args, composed, phase, children>>

\* base_dir, build_dir and the two commands; the configuration is printed.
Compose ==
    /\ pc = "parsed"
    /\ ~args.info
    /\ base_dir' = BaseDir(caller_cwd, file)
    /\ build_dir' = BuildDir(args.web, args.build_type)
    /\ cmake_command' = CmakeCommand(args.web, args.build_type, build_dir')
    /\ build_command' = BuildCommand(build_dir', args.jobs)
    /\ out' = out \o <<Ev("base_dir", <<>>), Ev("config", <<>>)>>
    /\ phase' = "configure"
    /\ pc' = "run"
    /\ UNCHANGED <<env, args, children, exit_code>>

Command == IF phase = "configure" THEN cmake_command ELSE build_command

\* Variant: the child is started and not awaited.
RunCommandStart_NoWait ==
    /\ pc = "run"
    /\ out' = Append(out, Ev("running", Command))
    /\ invoked' = Append(invoked, [command |-> Command, cwd |-> base_dir])
    /\ running' = running \cup {Len(invoked) + 1}
    /\ returncode' = 0
    /\ pc' = "check"
    /\ UNCHANGED <<env, args, composed, phase, results, exit_code>>

\* run_command: print the command and start the child; subprocess.run
\* blocks until the child has terminated.
RunCommandStart ==
    /\ pc = "run"
    /\ out' = Append(out, Ev("running", Command))
    /\ invoked' = Append(invoked, [command |-> Command, cwd |-> base_dir])
    /\ running' = running \cup {Len(invoked) + 1}
    /\ pc' = "wait"
    /\ UNCHANGED <<env, args, composed, phase, results, returncode, exit_code>>

\* subprocess.run raises when the program cannot be started; nothing
\* catches the exception and the interpreter exits with status 1.
SpawnFails ==
    /\ pc = "run"
    /\ out' = Append(out, Ev("running", Command))
    /\ invoked' = Append(invoked, [command |-> Command, cwd |-> base_dir])
    /\ results' = Append(results, [kind |-> "not_started", code |-> 0])
    /\ exit_code' = 1
    /\ pc' = "exited"
    /\ UNCHANGED <<env, args, composed, phase, running, returncode>>

\* The child terminates: it exits with a code, or a signal kills it and
\* returncode is the negated signal number.
ChildExits ==
    /\ pc = "wait"
    /\ \E c \in ExitCodes :
        /\ returncode' = c
        /\ results' = Append(results, [kind |-> "exited", code |-> c])
    /\ running' = {}
    /\ pc' = "check"
    /\ UNCHANGED <<env, args, composed, phase, invoked, out, exit_code>>

ChildKilled ==
    /\ pc = "wait"
    /\ \E sig \in Signals :
        /\ returncode' = 0 - sig
        /\ results' = Append(results, [kind |-> "signaled", code |-> sig])
    /\ running' = {}
    /\ pc' = "check"
    /\ UNCHANGED <<env, args, composed, phase, invoked, out, exit_code>>

\* if result.returncode != 0: print the diagnostic, sys.exit(returncode)
CommandFailed ==
    /\ pc = "check"
    /\ returncode # 0
    /\ out' = Append(out, Ev("error", Command))
    /\ exit_code' = ExitStatus(returncode)
    /\ pc' = "exited"
    /\ UNCHANGED <<env, args, composed, phase, children>>

\* configure succeeded: print "Building project:" and go on to the build.
ConfigureSucceeded ==
    /\ pc = "check"
    /\ returncode = 0
    /\ phase = "configure"
    /\ out' = Append(out, Ev("building", <<>>))
    /\ phase' = "build"
    /\ pc' = "run"
    /\ UNCHANGED <<env, args, composed, children, exit_code>>

\* Variant: the build's return code is not looked at.
BuildSucceeded_Unchecked ==
    /\ pc = "check"
    /\ phase = "build"
    /\ exit_code' = 0
    /\ pc' = "exited"
    /\ UNCHANGED <<env, args, composed, phase, children, out>>

\* build succeeded: main returns and the process exits 0.
BuildSucceeded ==
    /\ pc = "check"
    /\ returncode = 0
    /\ phase = "build"
    /\ exit_code' = 0
    /\ pc' = "exited"
    /\ UNCHANGED <<env, args, composed, phase, children, out>>

Next ==
    \/ ParseError
    \/ ParseHelp
    \/ ParseOk
    \/ PrintInfo
    \/ Compose
    \/ RunCommandStart
    \/ SpawnFails
    \/ ChildExits
    \/ ChildKilled
    \/ CommandFailed
    \/ ConfigureSucceeded
    \/ BuildSucceeded

Spec == Init /\ [][Next]_vars

TypeOK ==
    /\ pc \in {"start", "parsed", "run", "wait", "check", "exited"}
    /\ (pc = "exited") = (exit_code # -1)
    /\ exit_code \in -1..255

(***************************************************************************)
(* What the command line says, read off argv without the parser.           *)
(***************************************************************************)
Has(opt) == \E i \in DOMAIN argv : argv[i].s = opt

IsJobsFlag(tok) == tok.s \in {"--jobs", "-j"}

\* Every --jobs / -j carries an integer and every bare string is the
\* argument of a --jobs / -j.
JobsWellFormed ==
    \A i \in DOMAIN argv :
        /\ (IsJobsFlag(argv[i]) /\ argv[i].a # <<>>) => IsInt(argv[i].a)
        /\ (IsJobsFlag(argv[i]) /\ argv[i].a = <<>>) =>
              (i + 1 <= Len(argv) /\ argv[i + 1].s = "" /\ IsInt(argv[i + 1].a))
        /\ (argv[i].s = "") =>
              (i > 1 /\ IsJobsFlag(argv[i - 1]) /\ argv[i - 1].a = <<>>)

\* Only the build flags and --info occur, each --jobs with its integer.
OnlyBuildFlags ==
    /\ \A i \in DOMAIN argv :
          argv[i].s \in {"--debug", "--release", "--web", "--info", "--jobs", "-j", ""}
    /\ JobsWellFormed

BothBuildTypes == Has("--debug") /\ Has("--release")

\* The usage errors the specification names.
UsageErrorGiven == BothBuildTypes \/ Has("--bogus")

\* The characters of the job count given last, "8" when none is given.
GivenJobs ==
    LET js == {i \in DOMAIN argv : IsJobsFlag(argv[i])} IN
    IF js = {} THEN <<"8">>
    ELSE LET m == CHOOSE i \in js : \A k \in js : k <= i IN
         IF argv[m].a # <<>> THEN argv[m].a ELSE argv[m + 1].a

ValidRun == phase # "none"

Exited(i, c) == i <= Len(results) /\ results[i] = [kind |-> "exited", code |-> c]

ExitedNonZero(i) ==
    i <= Len(results) /\ results[i].kind = "exited" /\ results[i].code # 0

Printed(kind) == \E i \in DOMAIN out : out[i].kind = kind

(***************************************************************************)
(* C1: when the configure child exits with a non-zero code c, the build    *)
(* command is never invoked and the tool exits with exactly c.             *)
(***************************************************************************)
C1_ConfigureFailureStops ==
    (ValidRun /\ ExitedNonZero(1)) =>
        /\ Len(invoked) = 1
        /\ invoked[1].command = cmake_command
        /\ pc \in {"check", "exited"}
        /\ (pc = "exited" => exit_code = results[1].code)

C1_Witness ==
    /\ pc = "exited"
    /\ Exited(1, 255)
    /\ exit_code = 255
    /\ Len(invoked) = 1

(***************************************************************************)
(* C2: when the configure child exits 0, the build command is invoked      *)
(* exactly once and its last token is -j<N>, N the value given to          *)
(* --jobs / -j, or 8 when the flag is absent.                              *)
(***************************************************************************)
BuildInvocations == {i \in DOMAIN invoked : invoked[i].command = build_command}

C2_BuildOnceWithJobs ==
    /\ ValidRun => Cardinality(BuildInvocations) <= 1
    /\ (ValidRun /\ Exited(1, 0) /\ (pc = "exited" \/ (phase = "build" /\ pc # "run"))) =>
          /\ Cardinality(BuildInvocations) = 1
          /\ Len(invoked) = 2
    /\ \A i \in BuildInvocations :
          /\ Len(invoked[i].command) = 4
          /\ invoked[i].command[4] = <<"-j">> \o GivenJobs

C2_Witness ==
    /\ pc = "exited"
    /\ Exited(1, 0)
    /\ Has("--jobs")
    /\ GivenJobs = <<"1", "2">>
    /\ Len(invoked) = 2
    /\ invoked[2].command[4] = <<"-j", "1", "2">>

(***************************************************************************)
(* C3 as stated: with --info among the flags, whatever the other build     *)
(* flags are, the reference block is printed, no subprocess is invoked     *)
(* and the tool exits 0.                                                   *)
(***************************************************************************)
C3_InfoAlwaysWins ==
    (Has("--info") /\ OnlyBuildFlags) =>
        /\ invoked = <<>>
        /\ (pc = "exited" => (exit_code = 0 /\ out = <<Ev("info", <<>>)>>))

(***************************************************************************)
(* C3 as amended: with --info among the flags no subprocess is invoked;    *)
(* when the other flags are build flags that do not name both --debug and  *)
(* --release, the reference block is printed and the tool exits 0.         *)
(***************************************************************************)
C3_InfoWinsWhenParsed ==
    Has("--info") =>
        /\ invoked = <<>>
        /\ running = {}
        /\ (OnlyBuildFlags /\ ~BothBuildTypes) =>
              /\ pc \in {"start", "parsed", "exited"}
              /\ (pc = "exited" => (exit_code = 0 /\ out = <<Ev("info", <<>>)>>))

C3_Witness ==
    /\ pc = "exited"
    /\ Has("--info") /\ Has("--web") /\ Has("--debug")
    /\ out = <<Ev("info", <<>>)>>
    /\ exit_code = 0

(***************************************************************************)
(* C4 as stated: an invocation with both --debug and --release, or with    *)
(* an unknown flag, exits non-zero without invoking any subprocess.        *)
(***************************************************************************)
C4_UsageErrorNonZero ==
    UsageErrorGiven =>
        /\ invoked = <<>>
        /\ (pc = "exited" => exit_code # 0)

(***************************************************************************)
(* C4 as amended: an invocation with both --debug and --release, or with   *)
(* an unknown flag, never invokes a subprocess; unless --help is also      *)
(* given, it exits with the usage-error code before any other action.      *)
(***************************************************************************)
C4_UsageErrorWithoutHelp ==
    UsageErrorGiven =>
        /\ invoked = <<>>
        /\ running = {}
        /\ pc \in {"start", "exited"}
        /\ (pc = "exited" /\ ~Has("--help")) =>
              (exit_code = UsageExit /\ out = <<Ev("usage_error", <<>>)>>)

C4_Witness ==
    /\ pc = "exited"
    /\ argv = <<Flag("--release"), Flag("--web"), Flag("--debug")>>
    /\ exit_code = UsageExit
    /\ invoked = <<>>

(***************************************************************************)
(* C5: after a successful configure, a build child that exits with a       *)
(* non-zero code c makes the tool print one diagnostic naming the build    *)
(* command and exit with c; a build child that exits 0 makes it exit 0;    *)
(* a build run exits 0 only when both children exited 0.                   *)
(***************************************************************************)
ErrorLines == {i \in DOMAIN out : out[i].kind = "error"}

C5_BuildExitCode ==
    (ValidRun /\ pc = "exited") =>
        /\ (Exited(1, 0) /\ ExitedNonZero(2)) =>
              /\ exit_code = results[2].code
              /\ ErrorLines = {Len(out)}
              /\ out[Len(out)].cmd = build_command
        /\ (Exited(1, 0) /\ Exited(2, 0)) =>
              (exit_code = 0 /\ ErrorLines = {})
        /\ (exit_code = 0) => (Exited(1, 0) /\ Exited(2, 0))

C5_Witness ==
    /\ pc = "exited"
    /\ Exited(1, 0)
    /\ Exited(2, 3)
    /\ exit_code = 3
    /\ out[Len(out)] = Ev("error", build_command)

(***************************************************************************)
(* C6: the build directory is build-release, build-debug,                  *)
(* build-web-release or build-web-debug according to --web and to          *)
(* --debug (Release when neither --debug nor --release is given).          *)
(***************************************************************************)
GivenType == IF Has("--debug") THEN "Debug" ELSE "Release"

TableDir ==
    CASE ~Has("--web") /\ GivenType = "Release" -> "build-release"
      [] ~Has("--web") /\ GivenType = "Debug" -> "build-debug"
      [] Has("--web") /\ GivenType = "Release" -> "build-web-release"
      [] Has("--web") /\ GivenType = "Debug" -> "build-web-debug"

C6_BuildDirTable ==
    ValidRun =>
        /\ args.web = Has("--web")
        /\ args.build_type = GivenType
        /\ build_dir = TableDir

C6_Witness ==
    /\ ValidRun
    /\ Has("--web")
    /\ ~Has("--debug") /\ ~Has("--release")
    /\ build_dir = "build-web-release"

(***************************************************************************)
(* C7: native configure is cmake -DCMAKE_BUILD_TYPE=<type> -S . -B <dir>,  *)
(* web configure is emcmake cmake -DCMAKE_BUILD_TYPE=<type> -B <dir>, the  *)
(* build command is cmake --build <dir> -j<jobs> with the same <dir>.      *)
(***************************************************************************)
TypeToken == <<"-DCMAKE_BUILD_TYPE=", GivenType>>

C7_CommandTokens ==
    ValidRun =>
        /\ ~args.web =>
              cmake_command = <<(<<"cmake">>), TypeToken, (<<"-S">>), (<<".">>),
                                (<<"-B">>), (<<build_dir>>)>>
        /\ args.web =>
              cmake_command = <<(<<"emcmake">>), (<<"cmake">>), TypeToken,
                                (<<"-B">>), (<<build_dir>>)>>
        /\ Len(build_command) = 4
        /\ SubSeq(build_command, 1, 3) =
              <<(<<"cmake">>), (<<"--build">>), (<<build_dir>>)>>
        /\ build_command[4][1] = "-j"
        /\ IsInt(Tail(build_command[4]))
        /\ ParseInt(Tail(build_command[4])) = args.jobs
        /\ build_command[3] = cmake_command[Len(cmake_command)]
        /\ (argv = <<Flag("--web"), Flag("--debug"), Attached("-j", <<"4">>)>>) =>
              /\ build_dir = "build-web-debug"
              /\ cmake_command =
                    <<(<<"emcmake">>), (<<"cmake">>),
                      (<<"-DCMAKE_BUILD_TYPE=", "Debug">>),
                      (<<"-B">>), (<<"build-web-debug">>)>>
              /\ build_command =
                    <<(<<"cmake">>), (<<"--build">>), (<<"build-web-debug">>),
                      (<<"-j", "4">>)>>

C7_Witness ==
    /\ argv = <<Flag("--web"), Flag("--debug"), Attached("-j", <<"4">>)>>
    /\ Len(invoked) = 2
    /\ invoked[1].command[1] = <<"emcmake">>
    /\ invoked[2].command[4] = <<"-j", "4">>

(***************************************************************************)
(* C8: in every run that composes the commands or starts a subprocess the  *)
(* job count is at least 1.                                                *)
(***************************************************************************)
C8_JobsPositive ==
    ValidRun =>
        /\ args.jobs >= 1
        /\ \A i \in BuildInvocations : ParseInt(Tail(invoked[i].command[4])) >= 1

(***************************************************************************)
(* C9: at most one child runs at any moment, the configure command is the  *)
(* first child started, the build command is started only after the        *)
(* configure child has terminated, and the configuration is printed        *)
(* before the configure child is started.                                  *)
(***************************************************************************)
C9_Order ==
    /\ Cardinality(running) <= 1
    /\ Len(invoked) <= 2
    /\ invoked # <<>> => invoked[1].command = cmake_command
    /\ Len(invoked) = 2 =>
          /\ invoked[2].command = build_command
          /\ Exited(1, 0)
          /\ 1 \notin running

C9_StartsAfter ==
    (Len(invoked') > Len(invoked)) =>
        /\ running = {}
        /\ Len(results) = Len(invoked)
        /\ Printed("config")
        /\ ~Printed("running") => invoked = <<>>

C9_Sequential == []C9_Order /\ [][C9_StartsAfter]_vars

C9_Witness ==
    /\ Len(invoked) = 2
    /\ running = {2}
    /\ Len(results) = 1

(***************************************************************************)
(* C10: every child runs in the directory one level above the directory    *)
(* that contains the script, whatever the flags and the caller's current   *)
(* directory, and the directory is the same for both steps.                *)
(***************************************************************************)
ProjectRoot == Parent(Parent(script_path))

C10_ChildCwd ==
    /\ \A i \in DOMAIN invoked : invoked[i].cwd = ProjectRoot
    /\ ValidRun => base_dir = ProjectRoot

C10_Witness ==
    /\ Len(invoked) = 2
    /\ ~file.abs
    /\ caller_cwd = <<"home">>
    /\ script_path = <<"proj", "scripts", "build.py">>
    /\ invoked[1].cwd = <<"proj">>
    /\ invoked[2].cwd = <<"proj">>

====
